---- MODULE Spec2Model ----
(***************************************************************************)
(* vitest-browser-astro: the browser side (render, injectHTML, the mount   *)
(* registry, unmount, cleanup, the beforeEach hook), the host side (the    *)
(* plugin's configureServer hook and the renderAstro command) and the      *)
(* hydration wait, each as a state machine translated from the source.    *)
(***************************************************************************)
EXTENDS Integers, Sequences, FiniteSets, TLC

VARIABLES
  kids,       \* DOM: element -> sequence of child nodes (childNodes)
  created,    \* number of <div> elements document.createElement made in setupContainer
  registry,   \* mountedContainers: a JS Set, kept in insertion order
  results,    \* the RenderResult objects handed to test code
  requests,   \* renderAstro commands sent by the browser, not yet taken by the host
  responses,  \* command outcomes on their way back to the awaiting render()
  calls,      \* number of render() calls made so far
  now,        \* Date.now() in the browser
  lastOp,     \* the operation that produced the current state, with its pre-state facts
  hContainer, \* plugin closure variable `container`
  hCommand,   \* plugin closure variable `renderAstroCommand`
  hBuilt,     \* renderer hosts constructed so far by AstroContainer.create
  hRuns,      \* configureServer runs started so far
  hHooks,     \* configureServer runs in progress
  hCalls,     \* renderAstro invocations made so far
  hInvs,      \* renderAstro invocations in progress
  hLast,      \* the invocation that settled last
  wPc,        \* waitForHydration: position in the polling loop
  wStart,     \* waitForHydration: startTime
  wTimeout,   \* waitForHydration: the timeout argument
  wNow,       \* Date.now() as seen by waitForHydration
  wTimer,     \* due time of the pending setTimeout, or -1
  wMarkers,   \* astro-island[ssr] elements inside the scope
  wInit,      \* marker count inside the scope when waitForHydration was called
  wPolls,     \* evaluations of the loop condition so far
  wZeros,     \* how many of them found no marker
  wSleeps,    \* setTimeout calls made by the wait
  wRemaining, \* remainingCount of the timeout error, or -1
  wArg,       \* what waitForHydration was given: an element, a render result or a locator
  wLate,      \* whether a setTimeout of the wait has fired after its due time
  tPc,        \* module load: position in the plugin pipeline
  tId,        \* module load: the module id
  tCode,      \* module load: the code the earlier plugins produced
  tSsr,       \* module load: the ssr option of the transform hooks
  tPre,       \* what the pre plugin's transform returned
  tPost,      \* what the post plugin's transform returned
  tExport,    \* the default export of the module once evaluated
  dOut        \* the last console.log of a debug() call

domVars == <<kids, created, registry, results, requests, responses, calls, now, lastOp>>
hostVars == <<hContainer, hCommand, hBuilt, hRuns, hHooks, hCalls, hInvs, hLast>>
waitVars == <<wPc, wStart, wTimeout, wNow, wTimer, wMarkers, wInit, wPolls, wZeros, wSleeps, wRemaining, wArg, wLate>>
buildVars == <<tPc, tId, tCode, tSsr, tPre, tPost, tExport>>
logVars == <<dOut>>
vars == <<domVars, hostVars, waitVars, buildVars, logVars>>

-----------------------------------------------------------------------------
(* Bounds of the model *)

MaxRenders == 2
MaxHooks == 2
MaxInvocations == 2
MaxMarkers == 2
MaxClock == 250
MaxNow == 1

-----------------------------------------------------------------------------
(* The DOM *)

None == "none"

\* document.body
Body == "body"

\* an element the test created and attached under document.body
Host == "host"

\* an element the test created and never attached
Det == "det"

\* the n-th <div> made by document.createElement("div") in setupContainer
DivId(n) == <<"d1", "d2", "d3", "d4", "d5", "d6">>[n]

Divs == {DivId(n) : n \in 1..(MaxRenders + 1)}

Elements == {Body, Host, Det} \cup Divs

ElNode(e) == [k |-> "el", id |-> e, stale |-> FALSE, src |-> <<>>, type |-> "", text |-> ""]

\* node.parentNode
ParentNode(k, e) ==
  IF \E p \in DOMAIN k : \E i \in 1..Len(k[p]) : k[p][i] = ElNode(e)
  THEN CHOOSE p \in DOMAIN k : \E i \in 1..Len(k[p]) : k[p][i] = ElNode(e)
  ELSE None

RECURSIVE AttachedWithin(_, _, _)
AttachedWithin(k, e, n) ==
  IF e = Body THEN TRUE
  ELSE IF n = 0 THEN FALSE
  ELSE LET p == ParentNode(k, e) IN p # None /\ AttachedWithin(k, p, n - 1)

\* document.body.contains(e)
Attached(k, e) == AttachedWithin(k, e, Cardinality(Elements))

\* parent.appendChild(node)
AppendChild(k, p, node) == [k EXCEPT ![p] = Append(@, node)]

\* container.innerHTML = ""
ClearInnerHTML(k, c) == [k EXCEPT ![c] = <<>>]

\* document.body.removeChild(c)
RemoveChild(k, p, c) == [k EXCEPT ![p] = SelectSeq(@, LAMBDA nd : nd # ElNode(c))]

-----------------------------------------------------------------------------
(* HTML strings, as the sequence of top-level nodes they parse to.  A URL  *)
(* is a sequence of pieces in which "?" is a piece of its own; <<>> is an  *)
(* absent attribute.                                                       *)

HtmlScript(src, type, text) == [tag |-> "script", id |-> "", src |-> src, type |-> type, text |-> text, inner |-> <<>>]
\* an element with the <script> elements among its descendants
HtmlElWith(id, scripts) == [tag |-> "el", id |-> id, src |-> <<>>, type |-> "", text |-> "", inner |-> scripts]
HtmlEl(id) == HtmlElWith(id, <<>>)

CardHtml == <<HtmlEl("card")>>
IslandHtml ==
  <<HtmlScript(<<"/a.js">>, "module", ""),
    HtmlElWith("island", <<HtmlScript(<<"/b.js", "?", "v=1">>, "", "")>>),
    HtmlScript(<<>>, "", "init()")>>

\* src.includes("?")
IncludesQuery(src) == \E i \in 1..Len(src) : src[i] = "?"

\* `${src}${separator}_t=${Date.now()}`
StampedSrc(src, t) == src \o <<(IF IncludesQuery(src) THEN "&" ELSE "?"), "_t=", ToString(t)>>

\* the fresh <script> element built from one scriptData entry
ScriptNode(sd, t, stale) ==
  [k |-> "script", id |-> "", stale |-> stale,
   src |-> IF sd.src # <<>> THEN StampedSrc(sd.src, t) ELSE <<>>,
   type |-> sd.type, text |-> sd.text]

\* a node of the fragment made from the HTML without its scripts
MarkupNode(it, stale) == [k |-> "html", id |-> it.id, stale |-> stale, src |-> <<>>, type |-> "", text |-> ""]

RECURSIVE MapNodes(_, _, _, _)
MapNodes(items, script, t, stale) ==
  IF items = <<>> THEN <<>>
  ELSE <<IF script THEN ScriptNode(Head(items), t, stale) ELSE MarkupNode(Head(items), stale)>>
       \o MapNodes(Tail(items), script, t, stale)

\* temp.querySelectorAll("script"): the scripts at any depth, in document order
RECURSIVE QueryScripts(_)
QueryScripts(html) ==
  IF html = <<>> THEN <<>>
  ELSE (IF Head(html).tag = "script" THEN <<Head(html)>> ELSE Head(html).inner) \o QueryScripts(Tail(html))

\* container.innerHTML += html: every node stays where the HTML has it
setHTMLInPlace(k, container, html, t, stale) ==
  [k EXCEPT ![container] = @ \o [i \in 1..Len(html) |->
     IF html[i].tag = "script" THEN ScriptNode(html[i], t, stale) ELSE MarkupNode(html[i], stale)]]

\* setHTMLWithScripts(container, html): the non-script content first, then
\* one fresh script element per script of the HTML, in order
setHTMLWithScripts(k, container, html, t, stale) ==
  LET scriptData == QueryScripts(html)
      rest == SelectSeq(html, LAMBDA it : it.tag # "script")
  IN [k EXCEPT ![container] = @ \o MapNodes(rest, FALSE, t, stale) \o MapNodes(scriptData, TRUE, t, stale)]

\* setupContainer that empties baseElement before it appends the new container
setupContainerReplaces(k, n, baseElement, container) ==
  LET base == IF baseElement = None THEN Body ELSE baseElement
  IN IF container = None
     THEN [kids |-> AppendChild(ClearInnerHTML(k, base), base, ElNode(DivId(n + 1))), created |-> n + 1,
           container |-> DivId(n + 1), baseElement |-> base]
     ELSE [kids |-> k, created |-> n, container |-> container, baseElement |-> base]

\* setupContainer that inserts the new container as the first child
setupContainerPrepends(k, n, baseElement, container) ==
  LET base == IF baseElement = None THEN Body ELSE baseElement
  IN IF container = None
     THEN [kids |-> [k EXCEPT ![base] = <<ElNode(DivId(n + 1))>> \o @], created |-> n + 1,
           container |-> DivId(n + 1), baseElement |-> base]
     ELSE [kids |-> k, created |-> n, container |-> container, baseElement |-> base]

\* setupContainer(baseElement, container)
setupContainer(k, n, baseElement, container) ==
  LET base == IF baseElement = None THEN Body ELSE baseElement
  IN IF container = None
     THEN [kids |-> AppendChild(k, base, ElNode(DivId(n + 1))), created |-> n + 1,
           container |-> DivId(n + 1), baseElement |-> base]
     ELSE [kids |-> k, created |-> n, container |-> container, baseElement |-> base]

\* Array.prototype.push in place of Set.prototype.add
SetAddAlways(reg, c) == Append(reg, c)

\* Set.prototype.add on the insertion-ordered registry
SetAdd(reg, c) == IF \E i \in 1..Len(reg) : reg[i] = c THEN reg ELSE Append(reg, c)

\* Set.prototype.delete
SetDelete(reg, c) == SelectSeq(reg, LAMBDA x : x # c)

SetHas(reg, c) == \E i \in 1..Len(reg) : reg[i] = c

Members(reg) == {reg[i] : i \in 1..Len(reg)}

\* injectHTML whose result never reaches mountedContainers.add
injectHTMLUnregistered(k, n, reg, html, options, t, stale) ==
  LET s == setupContainer(k, n, options.baseElement, options.container)
  IN [kids |-> setHTMLWithScripts(s.kids, s.container, html, t, stale),
      created |-> s.created,
      registry |-> reg,
      result |-> [container |-> s.container, baseElement |-> s.baseElement]]

\* injectHTML(html, options): setupContainer, setHTMLWithScripts, createRenderResult
injectHTML(k, n, reg, html, options, t, stale) ==
  LET s == setupContainer(k, n, options.baseElement, options.container)
  IN [kids |-> setHTMLWithScripts(s.kids, s.container, html, t, stale),
      created |-> s.created,
      registry |-> SetAdd(reg, s.container),
      result |-> [container |-> s.container, baseElement |-> s.baseElement]]

\* unmount() that forgets mountedContainers.delete(container)
unmountKeepsEntry(k, reg, container) ==
  LET k1 == ClearInnerHTML(k, container)
  IN [kids |-> IF ParentNode(k1, container) = Body THEN RemoveChild(k1, Body, container) ELSE k1,
      registry |-> reg]

\* unmount() that calls mountedContainers.clear()
unmountClearsRegistry(k, reg, container) ==
  LET k1 == ClearInnerHTML(k, container)
  IN [kids |-> IF ParentNode(k1, container) = Body THEN RemoveChild(k1, Body, container) ELSE k1,
      registry |-> <<>>]

\* unmount() that takes the last child of document.body to be its container
unmountLastBodyChild(k, reg, container) ==
  LET k1 == ClearInnerHTML(k, container)
  IN [kids |-> [k1 EXCEPT ![Body] = IF @ = <<>> THEN @ ELSE SubSeq(@, 1, Len(@) - 1)],
      registry |-> SetDelete(reg, container)]

\* unmount() that removes the container from whatever parent it has
unmountAnyParent(k, reg, container) ==
  LET k1 == ClearInnerHTML(k, container)
      p == ParentNode(k1, container)
  IN [kids |-> IF p # None THEN RemoveChild(k1, p, container) ELSE k1,
      registry |-> SetDelete(reg, container)]

\* the unmount closure of createRenderResult
unmount(k, reg, container) ==
  LET k1 == ClearInnerHTML(k, container)
  IN [kids |-> IF ParentNode(k1, container) = Body THEN RemoveChild(k1, Body, container) ELSE k1,
      registry |-> SetDelete(reg, container)]

\* a cleanup callback that clears only the containers it also detaches
RECURSIVE CleanupEachBodyOnly(_, _)
CleanupEachBodyOnly(k, reg) ==
  IF reg = <<>> THEN k
  ELSE LET c == Head(reg)
           k2 == IF ParentNode(k, c) = Body THEN RemoveChild(ClearInnerHTML(k, c), Body, c) ELSE k
       IN CleanupEachBodyOnly(k2, Tail(reg))

\* the forEach callback of cleanup, applied to the registry in insertion order
RECURSIVE CleanupEach(_, _)
CleanupEach(k, reg) ==
  IF reg = <<>> THEN k
  ELSE LET c == Head(reg)
           k1 == ClearInnerHTML(k, c)
           k2 == IF ParentNode(k1, c) = Body THEN RemoveChild(k1, Body, c) ELSE k1
       IN CleanupEach(k2, Tail(reg))

\* cleanup() that also empties document.body
cleanupEmptiesBody(k, reg) == [kids |-> ClearInnerHTML(CleanupEach(k, reg), Body), registry |-> <<>>]

\* cleanup() that forgets mountedContainers.clear()
cleanupKeepsRegistry(k, reg) == [kids |-> CleanupEach(k, reg), registry |-> reg]

\* cleanup()
cleanup(k, reg) == [kids |-> CleanupEach(k, reg), registry |-> <<>>]

-----------------------------------------------------------------------------
(* Text: an error message is the sequence of its pieces, a path the        *)
(* sequence of its pieces with the root "/" and the extension as pieces    *)
(* of their own.                                                           *)

Contains(msg, piece) == \E i \in 1..Len(msg) : msg[i] = piece

NotAstroMsg == <<"Not an Astro component", ". Make sure you imported an .astro file and the vitest-browser-astro plugin is configured.">>

NotInitializedMsg == <<"renderAstroCommand not initialized">>

CardPath == <<"/", "src/Card", ".astro">>
IslandPath == <<"/", "src/Island", ".astro">>
BothPath == <<"/", "src/Both", ".astro">>
NamedPath == <<"/", "src/Named", ".astro">>
EmptyPath == <<"/", "src/Empty", ".astro">>
MissingPath == <<"/", "src/Missing", ".astro">>
RelativeCardPath == <<"src/Card", ".astro">>

\* process.cwd()
ProjectRoot == <<"/">>

\* path.join(projectRoot, componentPath)
ResolveJoin(root, path) == root \o path

\* path.resolve(projectRoot, componentPath)
Resolve(root, path) == IF path # <<>> /\ path[1] = "/" THEN path ELSE root \o path

-----------------------------------------------------------------------------------------------------------------------------------------------------
(* Props and their devalue encoding.  A props object is a sequence of      *)
(* <<key, value>> entries; a value is [t |-> its type, v |-> its text,     *)
(* items |-> the <<key, value>> entries of an object, array, Map or Set].  *)

\* an optional object: undefined, or the entries of the object
NoObject == [defined |-> FALSE, entries |-> <<>>]
Object(entries) == [defined |-> TRUE, entries |-> entries]

\* an optional string: undefined, or the text
Undefined == <<"undefined">>

\* the types with entries, and the types stringify can write as text
CompositeTypes == {"object", "array", "Map", "Set"}
AtomTypes == {"string", "number", "boolean", "null", "Date", "RegExp"}

Atom(t, v) == [t |-> t, v |-> v, items |-> <<>>]
Composite(t, items) == [t |-> t, v |-> "", items |-> items]
\* the elements of an array or a Set, or the keys and values of a Map in turn
Elems(vals) == [i \in 1..Len(vals) |-> <<"", vals[i]>>]

PlainProps == Object(<< <<"title", Atom("string", "Hello")>>, <<"when", Atom("Date", "2024-01-01")>> >>)
FnProps == Object(<< <<"title", Atom("string", "Hello")>>, <<"onClick", Atom("function", "")>> >>)
FooterSlots == Object(<< <<"footer", "<p>Footer content</p>">> >>)

\* props graphs that stringify can write
EmptyProps == Object(<<>>)
NestedProps ==
  Object(<< <<"config", Composite("object",
                << <<"enabled", Atom("boolean", "true")>>,
                   <<"tags", Composite("array", Elems(<<Atom("string", "astro"), Atom("string", "]")>>))>> >>)>>,
            <<"count", Atom("number", "42")>>,
            <<"none", Atom("null", "")>> >>)
CollectionProps ==
  Object(<< <<"byName", Composite("Map", Elems(<<Atom("string", "a"), Atom("Date", "2024-01-01")>>))>>,
            <<"seen", Composite("Set", Elems(<<Atom("RegExp", "/x/g"), Composite("array", <<>>)>>))>> >>)
TokenLikeProps ==
  Object(<< <<"k", Atom("string", "k")>>, <<"]", Atom("string", "[")>>,
            <<"object", Atom("string", "undefined")>> >>)

\* props graphs with a function below the top level
FnInArrayProps ==
  Object(<< <<"handlers", Composite("array",
                Elems(<<Atom("string", "x"), Composite("Map", Elems(<<Atom("string", "k"), Atom("function", "")>>))>>))>> >>)
FnInObjectProps ==
  Object(<< <<"a", Composite("object", << <<"b", Composite("object", << <<"c", Atom("function", "")>> >>)>> >>)>>,
            <<"title", Atom("string", "Hello")>> >>)

StringifyErrorMsg == <<"Cannot stringify a function">>

\* a walk that looks at the values of the top-level keys only
HasFunctionTopLevel(props) == \E i \in 1..Len(props) : props[i][2].t = "function"

\* whether the walk of stringify meets a function
RECURSIVE HasFunction(_)
HasFunction(props) ==
  \E i \in 1..Len(props) : props[i][2].t = "function" \/ HasFunction(props[i][2].items)

RECURSIVE EncodeEntries(_), EncodeValue(_)
\* the text of the entries of an object, array, Map or Set
EncodeEntries(props) ==
  IF props = <<>> THEN <<>>
  ELSE <<"k", Head(props)[1]>> \o EncodeValue(Head(props)[2]) \o EncodeEntries(Tail(props))

\* an encoding that writes a Date as the string of its text
EncodeValueDateAsString(val) ==
  IF val.t \in CompositeTypes
  THEN <<val.t, "[">> \o EncodeEntries(val.items) \o <<"]">>
  ELSE IF val.t = "Date" THEN <<"string", val.v>>
  ELSE <<val.t, val.v>>

\* the text of one value: its type, then its text or its entries in brackets
EncodeValue(val) ==
  IF val.t \in CompositeTypes
  THEN <<val.t, "[">> \o EncodeEntries(val.items) \o <<"]">>
  ELSE <<val.t, val.v>>

\* devalue stringify(value) of a props object
stringify(props) == EncodeValue(Composite("object", props))

BadParse == [ok |-> FALSE, val |-> Atom("null", ""), items |-> <<>>, rest |-> <<>>]

RECURSIVE DecodeEntries(_), DecodeValue(_)
\* the entries read from the text up to the closing bracket
DecodeEntries(toks) ==
  IF toks = <<>> THEN BadParse
  ELSE IF Head(toks) = "]"
  THEN [ok |-> TRUE, val |-> Atom("null", ""), items |-> <<>>, rest |-> Tail(toks)]
  ELSE IF Head(toks) = "k" /\ Len(toks) >= 2
  THEN LET first == DecodeValue(SubSeq(toks, 3, Len(toks)))
       IN IF ~first.ok THEN BadParse
          ELSE LET more == DecodeEntries(first.rest)
               IN IF more.ok
                  THEN [ok |-> TRUE, val |-> Atom("null", ""),
                        items |-> << <<toks[2], first.val>> >> \o more.items, rest |-> more.rest]
                  ELSE BadParse
  ELSE BadParse

\* the value read from the head of the text
DecodeValue(toks) ==
  IF Len(toks) < 2 THEN BadParse
  ELSE IF toks[1] \in CompositeTypes /\ toks[2] = "["
  THEN LET inner == DecodeEntries(SubSeq(toks, 3, Len(toks)))
       IN IF inner.ok
          THEN [ok |-> TRUE, val |-> Composite(toks[1], inner.items), items |-> <<>>, rest |-> inner.rest]
          ELSE BadParse
  ELSE IF toks[1] \in AtomTypes
  THEN [ok |-> TRUE, val |-> Atom(toks[1], toks[2]), items |-> <<>>, rest |-> SubSeq(toks, 3, Len(toks))]
  ELSE BadParse

\* whether parse accepts the text as a props object
WellFormed(text) ==
  LET r == DecodeValue(text)
  IN r.ok /\ r.rest = <<>> /\ r.val.t = "object"

\* devalue parse(text), for well-formed text: the entries of the object
parse(text) == DecodeValue(text).val.items

ParseErrorMsg == <<"Invalid input">>

-----------------------------------------------------------------------------
(* Component arguments of render()                                         *)

Ref(flag, path, name) == [kind |-> "object", flag |-> flag, path |-> path, name |-> name]

CardRef == Ref("true", CardPath, "default")
IslandRef == Ref("true", IslandPath, "default")
MissingRef == Ref("true", MissingPath, "default")
EmptyRef == Ref("true", EmptyPath, "default")
\* {some: "object"}
PlainObject == Ref("absent", <<>>, "")
\* {__path, __name} without the flag
NoFlagRef == Ref("absent", CardPath, "default")
\* {__astroComponent: false, ...}
FalseFlagRef == Ref("false", CardPath, "default")
NullArg == [kind |-> "null", flag |-> "absent", path |-> <<>>, name |-> ""]
UndefinedArg == [kind |-> "undefined", flag |-> "absent", path |-> <<>>, name |-> ""]

\* a validation that accepts any object
FlagTruthyAnyObject(component) == component.kind = "object"

\* metadata?.__astroComponent, as a truth value
FlagTruthy(component) == component.kind = "object" /\ component.flag = "true"

-----------------------------------------------------------------------------
(* The transform hooks of the two plugins.  Source text is a sequence of   *)
(* pieces; a quote, a backslash and a line break are pieces of their own.  *)

Quote == "\""
Backslash == "\\"
Newline == "\n"

\* a transform hook returning null
NullResult == [kind |-> "null", text |-> <<>>]

\* a transform hook returning code
CodeResult(text) == [kind |-> "code", text |-> text]

\* id.includes(".astro")
IncludesAstro(id) == \E i \in 1..Len(id) : id[i] = ".astro"

\* id.endsWith(".astro")
EndsWithAstro(id) == id # <<>> /\ id[Len(id)] = ".astro"

\* options?.ssr, for options undefined, without ssr, ssr false and ssr true
SsrOptions == {"undefined", "absent", "false", "true"}
SsrTruthy(ssr) == ssr = "true"

EscapePiece(p) ==
  IF p = Quote THEN <<Backslash, Quote>>
  ELSE IF p = Backslash THEN <<Backslash, Backslash>>
  ELSE IF p = Newline THEN <<Backslash, "n">>
  ELSE <<p>>

RECURSIVE EscapeAll(_)
EscapeAll(str) == IF str = <<>> THEN <<>> ELSE EscapePiece(Head(str)) \o EscapeAll(Tail(str))

\* a path written between quotes as it is
JsonStringifyNoEscape(str) == <<Quote>> \o str \o <<Quote>>

\* JSON.stringify of a string
JsonStringify(str) == <<Quote>> \o EscapeAll(str) \o <<Quote>>

BadLiteral == [ok |-> FALSE, v |-> <<>>]

\* the value of the characters between the quotes of a string literal
RECURSIVE Unescape(_)
Unescape(body) ==
  IF body = <<>> THEN [ok |-> TRUE, v |-> <<>>]
  ELSE IF Head(body) = Backslash
  THEN IF Len(body) < 2 \/ body[2] = Newline THEN BadLiteral
       ELSE LET rest == Unescape(SubSeq(body, 3, Len(body)))
                c == IF body[2] = "n" THEN Newline ELSE body[2]
            IN IF rest.ok THEN [ok |-> TRUE, v |-> <<c>> \o rest.v] ELSE BadLiteral
  ELSE IF Head(body) \in {Quote, Newline} THEN BadLiteral
  ELSE LET rest == Unescape(Tail(body))
       IN IF rest.ok THEN [ok |-> TRUE, v |-> <<Head(body)>> \o rest.v] ELSE BadLiteral

\* evaluation of a double-quoted string literal by the JavaScript engine
EvalStringLiteral(lit) ==
  IF Len(lit) < 2 \/ lit[1] # Quote \/ lit[Len(lit)] # Quote THEN BadLiteral
  ELSE Unescape(SubSeq(lit, 2, Len(lit) - 1))

\* the text around the path literal in the emitted module
ModuleHead == <<"export default {", "__astroComponent: ", "true", ",", "__path: ">>
ModuleTail == <<",", "__name: ", Quote, "default", Quote, ",", "};">>

\* transform of the pre plugin
transformPre(code, id, ssr) ==
  IF EndsWithAstro(id) /\ SsrTruthy(ssr)
  THEN CodeResult(<<"// astro-head-inject", Newline>> \o code)
  ELSE NullResult

\* a post transform that does not look at options.ssr
transformPostAnyLoad(code, id, ssr) ==
  IF EndsWithAstro(id)
  THEN CodeResult(ModuleHead \o JsonStringify(id) \o ModuleTail)
  ELSE NullResult

\* transform of the post plugin
transformPost(code, id, ssr) ==
  IF EndsWithAstro(id) /\ ~SsrTruthy(ssr)
  THEN CodeResult(ModuleHead \o JsonStringify(id) \o ModuleTail)
  ELSE NullResult

\* the code after a hook: what the hook returned, or its input when it returned null
Applied(result, code) == IF result.kind = "code" THEN result.text ELSE code

StartsWith(text, head) == Len(text) >= Len(head) /\ SubSeq(text, 1, Len(head)) = head
EndsWith(text, tail) == Len(text) >= Len(tail) /\ SubSeq(text, Len(text) - Len(tail) + 1, Len(text)) = tail

\* the path literal of a module of the emitted shape
PathLiteral(text) == SubSeq(text, Len(ModuleHead) + 1, Len(text) - Len(ModuleTail))

NoExport == [kind |-> "none", flag |-> "absent", path |-> <<>>, name |-> ""]
SyntaxErrorExport == [kind |-> "syntax-error", flag |-> "absent", path |-> <<>>, name |-> ""]
OtherExport == [kind |-> "other", flag |-> "absent", path |-> <<>>, name |-> ""]

\* the default export the browser gets when it evaluates the module text
EvalModule(text) ==
  IF StartsWith(text, ModuleHead) /\ EndsWith(text, ModuleTail) /\ Len(text) >= Len(ModuleHead) + Len(ModuleTail)
  THEN LET p == EvalStringLiteral(PathLiteral(text))
       IN IF p.ok THEN Ref("true", p.v, "default") ELSE SyntaxErrorExport
  ELSE OtherExport

\* the module ids tried
ModuleIds ==
  { CardPath,
    <<"/", "src/Card", ".astro", "?", "astro&type=style">>,
    <<"/", "src/main", ".ts">>,
    <<"/", "src/App", ".tsx">>,
    <<"/", "src/util", ".js">>,
    <<"/", "src/App", ".jsx">>,
    <<"C:", Backslash, "proj", Backslash, "n", "ew", ".astro">>,
    <<"/", "src/my", Quote, "quoted", Quote, ".astro">>,
    <<"/", "src/line", Newline, "break", ".astro">>,
    <<".astro">>,
    <<"/", "src/Card", ".astro", ".js">> }

\* the code Astro's compiler hands on for a module
CompiledBodies ==
  { <<"const $$Card = createComponent(...);", "export default ", "$$Card", ";">>,
    <<"export default ", "42", ";">> }

BuildIdle ==
  /\ tPc = "idle"
  /\ tId = <<>>
  /\ tCode = <<>>
  /\ tSsr = "undefined"
  /\ tPre = NullResult
  /\ tPost = NullResult
  /\ tExport = NoExport

-----------------------------------------------------------------------------
(* The host: modules the Vite server can load, and the renderer            *)

\* a module is the sequence of its <<export name, value>> entries
Modules == [p \in {CardPath, IslandPath, BothPath, NamedPath, EmptyPath} |->
  CASE p = CardPath -> << <<"default", "Card">> >>
    [] p = IslandPath -> << <<"default", "Island">> >>
    [] p = BothPath -> << <<"default", "Card">>, <<"Named", "Island">> >>
    [] p = NamedPath -> << <<"Named", "Island">> >>
    [] OTHER -> << <<"frontmatter", None>> >>]

LoadErrorMsg(path) == <<"Failed to load url ">> \o path

\* componentModule[key]: the value, or None for undefined
Export(module, key) ==
  IF \E i \in 1..Len(module) : module[i][1] = key
  THEN module[CHOOSE i \in 1..Len(module) : module[i][1] = key][2]
  ELSE None

\* Object.keys(componentModule)
ExportNames(module) == [i \in 1..Len(module) |-> module[i][1]]

\* componentModule.default || componentModule[componentName]
LookupComponent(module, componentName) ==
  IF Export(module, "default") # None THEN Export(module, "default") ELSE Export(module, componentName)

\* an error message that names the path only
NotFoundMsgPathOnly(path, module) == <<"Component not found for ">> \o path

NotFoundMsg(path, module) == <<"Component not found for ">> \o path \o <<". Available exports: ">> \o ExportNames(module)

RenderErrorMsg == <<"renderer threw">>

\* container.renderToString(Component, ...): the markup of the component
RendererOutput(Component) == IF Component = "Island" THEN IslandHtml ELSE CardHtml

Failure(msg) == [ok |-> FALSE, html |-> <<>>, error |-> msg, component |-> None, props |-> NoObject, slots |-> NoObject]

\* the command returned by createRenderAstroCommand, from ssrLoadModule's
\* answer on: lookup, props decoding, renderToString
CommandBody(path, componentName, serializedProps, slots, rendererThrows) ==
  LET absolutePath == Resolve(ProjectRoot, path)
  IN IF absolutePath \notin DOMAIN Modules THEN Failure(LoadErrorMsg(absolutePath))
     ELSE LET componentModule == Modules[absolutePath]
              Component == LookupComponent(componentModule, componentName)
          IN IF Component = None THEN Failure(NotFoundMsg(absolutePath, componentModule))
             ELSE IF serializedProps # Undefined /\ ~WellFormed(serializedProps) THEN Failure(ParseErrorMsg)
             ELSE IF rendererThrows THEN Failure(RenderErrorMsg)
             ELSE [ok |-> TRUE, html |-> RendererOutput(Component), error |-> <<>>,
                   component |-> Component,
                   props |-> IF serializedProps # Undefined THEN Object(parse(serializedProps)) ELSE NoObject,
                   slots |-> slots]

\* config().test.browser.commands.renderAstro: the guard, then the command
renderAstro(initialized, path, componentName, serializedProps, slots, rendererThrows) ==
  IF ~initialized THEN Failure(NotInitializedMsg)
  ELSE CommandBody(path, componentName, serializedProps, slots, rendererThrows)

-----------------------------------------------------------------------------
(* The browser side                                                        *)

\* what a test passes to render(): the component, props and slots
RenderInputs ==
  { <<IslandRef, PlainProps, FooterSlots>>,
    <<MissingRef, NoObject, NoObject>>, <<EmptyRef, NoObject, NoObject>>,
    <<CardRef, FnProps, NoObject>>,
    <<PlainObject, Object(<<>>), NoObject>>, <<NoFlagRef, Object(<<>>), NoObject>>,
    <<FalseFlagRef, NoObject, NoObject>>, <<NullArg, NoObject, NoObject>>,
    <<UndefinedArg, NoObject, NoObject>> }

CreatedDivs == {DivId(i) : i \in 1..created}

\* render(component) with neither option
DefaultOptions == {[container |-> None, baseElement |-> None]}

\* the container and baseElement options a test can pass
RenderOptions ==
  {[container |-> None, baseElement |-> b] : b \in {None, Host} \cup CreatedDivs}
  \cup {[container |-> c, baseElement |-> None] : c \in {Host, Det} \cup CreatedDivs}

\* the record of an operation: its name, the container it acted on with the
\* parent that container had before, the error it rejected with, and for a
\* cleanup the registry before it and the registered children of body
Op(op, c, msg) == [op |-> op, c |-> c, parent |-> None, msg |-> msg, reg |-> {}, wasBody |-> {}]

BodyChildren(k, cs) == {c \in cs : ParentNode(k, c) = Body}

\* render(component, options) up to the await of commands.renderAstro; the
\* request keeps, next to what is sent, the props the call was given
RenderCall(input, options) ==
  LET metadata == input[1]
      props == input[2]
      slots == input[3]
  IN /\ calls < MaxRenders
     /\ calls' = calls + 1
     /\ IF ~FlagTruthy(metadata)
        THEN /\ lastOp' = Op("rejected", None, NotAstroMsg)
             /\ UNCHANGED requests
        ELSE IF props.defined /\ HasFunction(props.entries)
        THEN /\ lastOp' = Op("rejected", None, StringifyErrorMsg)
             /\ UNCHANGED requests
        ELSE /\ requests' = Append(requests,
                  [id |-> calls + 1, path |-> metadata.path, name |-> metadata.name,
                   serializedProps |-> IF props.defined THEN stringify(props.entries) ELSE Undefined,
                   slots |-> slots, options |-> options, stale |-> FALSE, props |-> props])
             /\ lastOp' = Op("called", None, <<>>)
     /\ UNCHANGED <<kids, created, registry, results, responses, now>>
     /\ UNCHANGED <<hostVars, waitVars, buildVars, logVars>>

\* a host that answers the newest command first
HostRunNewestFirst(initialized, rendererThrows) ==
  /\ requests # <<>>
  /\ LET r == requests[Len(requests)]
     IN responses' = responses \cup
          {[call |-> r, out |-> renderAstro(initialized, r.path, r.name, r.serializedProps, r.slots, rendererThrows)]}
  /\ requests' = SubSeq(requests, 1, Len(requests) - 1)
  /\ UNCHANGED <<kids, created, registry, results, calls, now, lastOp>>
  /\ UNCHANGED <<hostVars, waitVars, buildVars, logVars>>

\* the host takes the oldest command and answers it
HostRun(initialized, rendererThrows) ==
  /\ requests # <<>>
  /\ LET r == Head(requests)
     IN responses' = responses \cup
          {[call |-> r, out |-> renderAstro(initialized, r.path, r.name, r.serializedProps, r.slots, rendererThrows)]}
  /\ requests' = Tail(requests)
  /\ UNCHANGED <<kids, created, registry, results, calls, now, lastOp>>
  /\ UNCHANGED <<hostVars, waitVars, buildVars, logVars>>

\* render() that catches the command's error and injects an empty string
DeliverSwallowsError(resp) ==
  /\ resp \in responses
  /\ responses' = responses \ {resp}
  /\ LET m == injectHTML(kids, created, registry, resp.out.html, resp.call.options, now, resp.call.stale)
     IN /\ kids' = m.kids
        /\ created' = m.created
        /\ registry' = m.registry
        /\ results' = results \cup {[id |-> resp.call.id, container |-> m.result.container,
                                     baseElement |-> m.result.baseElement,
                                     options |-> resp.call.options]}
        /\ lastOp' = Op("rendered", m.result.container, <<>>)
  /\ UNCHANGED <<requests, calls, now>>
  /\ UNCHANGED <<hostVars, waitVars, buildVars, logVars>>

\* render() after the await: the rejection is rethrown, or the HTML injected
Deliver(resp) ==
  /\ resp \in responses
  /\ responses' = responses \ {resp}
  /\ IF resp.out.ok
     THEN LET m == injectHTML(kids, created, registry, resp.out.html, resp.call.options, now, resp.call.stale)
          IN /\ kids' = m.kids
             /\ created' = m.created
             /\ registry' = m.registry
             /\ results' = results \cup {[id |-> resp.call.id, container |-> m.result.container,
                                          baseElement |-> m.result.baseElement,
                                     options |-> resp.call.options]}
             /\ lastOp' = Op("rendered", m.result.container, <<>>)
     ELSE /\ lastOp' = Op("rejected", None, resp.out.error)
          /\ UNCHANGED <<kids, created, registry, results>>
  /\ UNCHANGED <<requests, calls, now>>
  /\ UNCHANGED <<hostVars, waitVars, buildVars, logVars>>

\* screen.unmount()
Unmount(res) ==
  /\ res \in results
  /\ LET u == unmount(kids, registry, res.container)
     IN /\ kids' = u.kids
        /\ registry' = u.registry
  /\ lastOp' = [Op("unmount", res.container, <<>>) EXCEPT !.parent = ParentNode(kids, res.container)]
  /\ UNCHANGED <<created, results, requests, responses, calls, now>>
  /\ UNCHANGED <<hostVars, waitVars, buildVars, logVars>>

\* a test calls cleanup()
Cleanup ==
  /\ LET u == cleanup(kids, registry)
     IN /\ kids' = u.kids
        /\ registry' = u.registry
  /\ lastOp' = [Op("cleanup", None, <<>>) EXCEPT
                  !.reg = Members(registry), !.wasBody = BodyChildren(kids, Members(registry))]
  /\ UNCHANGED <<created, results, requests, responses, calls, now>>
  /\ UNCHANGED <<hostVars, waitVars, buildVars, logVars>>

\* the nodes of earlier renders, marked as such when the next test begins
MarkStaleNodes(k) ==
  [e \in DOMAIN k |-> [i \in 1..Len(k[e]) |-> IF k[e][i].k = "el" THEN k[e][i] ELSE [k[e][i] EXCEPT !.stale = TRUE]]]

\* beforeEach(async () => { await cleanup(); }), then the test body starts;
\* a render still awaiting its command belongs to the earlier test
BeginTest ==
  /\ LET u == cleanup(kids, registry)
     IN /\ kids' = MarkStaleNodes(u.kids)
        /\ registry' = u.registry
  /\ requests' = [i \in 1..Len(requests) |-> [requests[i] EXCEPT !.stale = TRUE]]
  /\ responses' = {[r EXCEPT !.call.stale = TRUE] : r \in responses}
  /\ lastOp' = [Op("beforeEach", None, <<>>) EXCEPT
                  !.reg = Members(registry), !.wasBody = BodyChildren(kids, Members(registry))]
  /\ UNCHANGED <<created, results, calls, now>>
  /\ UNCHANGED <<hostVars, waitVars, buildVars, logVars>>

\* the maxLength fallback of debug
DebugDefault == 7000

\* the length of "<div></div>"
EmptyDivLength == 11

\* lengths of element.outerHTML tried
OuterHtmlLengths == {EmptyDivLength, 40, 7000, 7001, 9000}

NoArg == [kind |-> "undefined", id |-> None, v |-> 0]
Number(n) == [kind |-> "number", id |-> None, v |-> n]
ElementArg(e) == [kind |-> "element", id |-> e, v |-> 0]
\* an object whose element() returns e
LocatorArg(e) == [kind |-> "locator", id |-> e, v |-> 0]

\* the values a test passes as maxLength, or leaves out
MaxLengths == {NoArg} \cup {Number(n) : n \in {0, 1, 40, 7000, 8000}}

\* a JS value used as a condition
Truthy(x) == IF x.kind = "number" THEN x.v # 0 ELSE x.kind # "undefined"

\* String.prototype.substring(0, end) of a string of len characters: the
\* length of the prefix it returns
SubstringLength(len, end) ==
  LET e == IF end < 0 THEN 0 ELSE end
  IN IF e < len THEN e ELSE len

\* the debug closure of createRenderResult: which element is printed and
\* how many characters of its outerHTML, of length len
debug(container, el, maxLength, len) ==
  [called |-> TRUE,
   element |-> IF el.kind = "locator" THEN el.id ELSE IF Truthy(el) THEN el.id ELSE container,
   printed |-> SubstringLength(len, IF Truthy(maxLength) THEN maxLength.v ELSE DebugDefault),
   el |-> el, maxLength |-> maxLength, len |-> len]

NoLog == [called |-> FALSE, element |-> None, printed |-> 0, el |-> NoArg, maxLength |-> NoArg, len |-> 0]

LogIdle == dOut = NoLog

\* screen.debug(el, maxLength) on a page where the element printed has an
\* outerHTML of len characters
Debug(res, el, maxLength, len) ==
  /\ res \in results
  /\ LET out == debug(res.container, el, maxLength, len)
     IN /\ (kids[out.element] = <<>> <=> len = EmptyDivLength)
        /\ dOut' = out
  /\ UNCHANGED <<domVars, hostVars, waitVars, buildVars>>

DomInit ==
  /\ kids = [e \in Elements |-> IF e = Body THEN <<ElNode(Host)>> ELSE <<>>]
  /\ created = 0
  /\ registry = <<>>
  /\ results = {}
  /\ requests = <<>>
  /\ responses = {}
  /\ calls = 0
  /\ now = 0
  /\ lastOp = Op("init", None, <<>>)

NoInvocation == [id |-> 0, input |-> <<>>, inst |-> 0, component |-> None, pc |-> "none", out |-> Failure(<<>>)]

HostIdle ==
  /\ hContainer = 0
  /\ hCommand = 0
  /\ hBuilt = <<>>
  /\ hRuns = 0
  /\ hHooks = {}
  /\ hCalls = 0
  /\ hInvs = {}
  /\ hLast = NoInvocation

WaitIdle ==
  /\ wPc = "idle"
  /\ wStart = 0
  /\ wTimeout = 0
  /\ wNow = 0
  /\ wTimer = -1
  /\ wMarkers = 0
  /\ wInit = 0
  /\ wPolls = 0
  /\ wZeros = 0
  /\ wSleeps = 0
  /\ wRemaining = -1
  /\ wArg = "element"
  /\ wLate = FALSE

Init == DomInit /\ HostIdle /\ WaitIdle /\ BuildIdle /\ LogIdle

Next ==
  \/ \E input \in RenderInputs, options \in RenderOptions : RenderCall(input, options)
  \/ \E initialized \in BOOLEAN, rendererThrows \in BOOLEAN : HostRun(initialized, rendererThrows)
  \/ \E resp \in responses : Deliver(resp)
  \/ \E res \in results : Unmount(res)
  \/ Cleanup
  \/ BeginTest

Spec == Init /\ [][Next]_vars

\* renders of one component with the props graphs and slots tried
CodecInputs ==
  { <<CardRef, EmptyProps, NoObject>>, <<CardRef, PlainProps, FooterSlots>>,
    <<CardRef, NestedProps, NoObject>>, <<CardRef, CollectionProps, FooterSlots>>,
    <<CardRef, TokenLikeProps, NoObject>>, <<CardRef, NoObject, FooterSlots>>,
    <<CardRef, FnProps, NoObject>>, <<CardRef, FnInArrayProps, FooterSlots>>,
    <<CardRef, FnInObjectProps, NoObject>> }

\* the path of the props from render() to the renderer and back
NextCodec ==
  \/ \E input \in CodecInputs, options \in DefaultOptions : RenderCall(input, options)
  \/ \E rendererThrows \in BOOLEAN : HostRun(TRUE, rendererThrows)
  \/ \E resp \in responses : Deliver(resp)

SpecCodec == Init /\ [][NextCodec]_vars

\* a millisecond passes on the browser's clock
Tick ==
  /\ now < MaxNow
  /\ now' = now + 1
  /\ UNCHANGED <<kids, created, registry, results, requests, responses, calls, lastOp>>
  /\ UNCHANGED <<hostVars, waitVars, buildVars, logVars>>

\* renders into a fresh container and into one that is already filled
InjectOptions == DefaultOptions \cup {[container |-> Host, baseElement |-> None]}

\* the injection of the rendered HTML while the clock advances
NextInject ==
  \/ \E input \in {<<IslandRef, PlainProps, FooterSlots>>, <<CardRef, EmptyProps, NoObject>>},
         options \in InjectOptions : RenderCall(input, options)
  \/ HostRun(TRUE, FALSE)
  \/ \E resp \in responses : Deliver(resp)
  \/ \E res \in results : Unmount(res)
  \/ BeginTest
  \/ Tick

SpecInject == Init /\ [][NextInject]_vars

\* what a test passes to debug() as the element
DebugTargets == {NoArg, ElementArg(Host), LocatorArg(Host)} \cup {ElementArg(d) : d \in CreatedDivs}

\* renders, unmounts and debug() calls
NextDebug ==
  \/ \E options \in InjectOptions : RenderCall(<<CardRef, EmptyProps, NoObject>>, options)
  \/ HostRun(TRUE, FALSE)
  \/ \E resp \in responses : Deliver(resp)
  \/ \E res \in results : Unmount(res)
  \/ \E res \in results, el \in DebugTargets, maxLength \in MaxLengths, len \in OuterHtmlLengths :
       Debug(res, el, maxLength, len)

SpecDebug == Init /\ [][NextDebug]_vars

\* the browser side with Date.now() advancing between its steps, or not
NextClock ==
  \/ \E input \in RenderInputs, options \in RenderOptions : RenderCall(input, options)
  \/ \E initialized \in BOOLEAN, rendererThrows \in BOOLEAN : HostRun(initialized, rendererThrows)
  \/ \E resp \in responses : Deliver(resp)
  \/ \E res \in results : Unmount(res)
  \/ Cleanup
  \/ BeginTest
  \/ Tick

SpecClock == Init /\ [][NextClock]_vars

-----------------------------------------------------------------------------
(* The host side: the plugin returned by astroRenderer(options)            *)

\* options.serverRenderers, as the module paths
ServerRenderers == <<"@astrojs/react/server.js", "@astrojs/vue/server.js">>

\* options.clientRenderers, as the integration names
ClientRenderers == <<"@astrojs/react">>

\* what a caller passes to the renderAstro command
CommandInputs ==
  { [path |-> CardPath, name |-> "default", serializedProps |-> stringify(PlainProps.entries), slots |-> NoObject],
    [path |-> BothPath, name |-> "Named", serializedProps |-> Undefined, slots |-> FooterSlots],
    [path |-> NamedPath, name |-> "Named", serializedProps |-> Undefined, slots |-> NoObject],
    [path |-> NamedPath, name |-> "default", serializedProps |-> Undefined, slots |-> NoObject],
    [path |-> RelativeCardPath, name |-> "default", serializedProps |-> <<"{", "title">>, slots |-> NoObject],
    [path |-> MissingPath, name |-> "default", serializedProps |-> Undefined, slots |-> NoObject],
    [path |-> EmptyPath, name |-> "Named", serializedProps |-> Undefined, slots |-> NoObject] }

NewInstance == [server |-> <<>>, client |-> <<>>]

\* the tail of createRenderAstroCommand: the client renderers are added and
\* the command, closed over its container, is returned and assigned
FinishCommand(built, inst) == [built EXCEPT ![inst].client = @ \o ClientRenderers]

\* configureServer(server) is called: AstroContainer.create() starts
ConfigureServer ==
  /\ hRuns < MaxHooks
  /\ hRuns' = hRuns + 1
  /\ hHooks' = hHooks \cup {[id |-> hRuns + 1, pc |-> "creating", inst |-> 0, i |-> 0]}
  /\ UNCHANGED <<hContainer, hCommand, hBuilt, hCalls, hInvs, hLast>>
  /\ UNCHANGED <<domVars, waitVars, buildVars, logVars>>

\* a configureServer that hands out the command as soon as the container exists
HookCreatedAssignsEarly(h) ==
  /\ h \in hHooks
  /\ h.pc = "creating"
  /\ LET inst == Len(hBuilt) + 1
     IN /\ hContainer' = inst
        /\ hCommand' = inst
        /\ IF ServerRenderers = <<>>
           THEN /\ hBuilt' = FinishCommand(Append(hBuilt, NewInstance), inst)
                /\ hHooks' = hHooks \ {h}
           ELSE /\ hBuilt' = Append(hBuilt, NewInstance)
                /\ hHooks' = (hHooks \ {h}) \cup {[h EXCEPT !.pc = "loading", !.inst = inst, !.i = 1]}
  /\ UNCHANGED <<hRuns, hCalls, hInvs, hLast>>
  /\ UNCHANGED <<domVars, waitVars, buildVars, logVars>>

\* AstroContainer.create() resolves: `container` is assigned and
\* createRenderAstroCommand runs up to its first ssrLoadModule
HookCreated(h) ==
  /\ h \in hHooks
  /\ h.pc = "creating"
  /\ LET inst == Len(hBuilt) + 1
     IN /\ hContainer' = inst
        /\ IF ServerRenderers = <<>>
           THEN /\ hBuilt' = FinishCommand(Append(hBuilt, NewInstance), inst)
                /\ hCommand' = inst
                /\ hHooks' = hHooks \ {h}
           ELSE /\ hBuilt' = Append(hBuilt, NewInstance)
                /\ hHooks' = (hHooks \ {h}) \cup {[h EXCEPT !.pc = "loading", !.inst = inst, !.i = 1]}
                /\ UNCHANGED hCommand
  /\ UNCHANGED <<hRuns, hCalls, hInvs, hLast>>
  /\ UNCHANGED <<domVars, waitVars, buildVars, logVars>>

\* ssrLoadModule(modulePath) of a server renderer resolves: addServerRenderer,
\* then the next load, or the client renderers and the assignment of the command
HookLoaded(h) ==
  /\ h \in hHooks
  /\ h.pc = "loading"
  /\ LET added == [hBuilt EXCEPT ![h.inst].server = Append(@, ServerRenderers[h.i])]
     IN IF h.i < Len(ServerRenderers)
        THEN /\ hBuilt' = added
             /\ hHooks' = (hHooks \ {h}) \cup {[h EXCEPT !.i = h.i + 1]}
             /\ UNCHANGED hCommand
        ELSE /\ hBuilt' = FinishCommand(added, h.inst)
             /\ hCommand' = h.inst
             /\ hHooks' = hHooks \ {h}
  /\ UNCHANGED <<hContainer, hRuns, hCalls, hInvs, hLast>>
  /\ UNCHANGED <<domVars, waitVars, buildVars, logVars>>

\* ssrLoadModule(modulePath) of a server renderer rejects: configureServer rejects
HookLoadFails(h) ==
  /\ h \in hHooks
  /\ h.pc = "loading"
  /\ hHooks' = hHooks \ {h}
  /\ UNCHANGED <<hContainer, hCommand, hBuilt, hRuns, hCalls, hInvs, hLast>>
  /\ UNCHANGED <<domVars, waitVars, buildVars, logVars>>

\* commands.renderAstro(...args): the guard of config(), then the command up
\* to its ssrLoadModule
Invoke(input) ==
  /\ hCalls < MaxInvocations
  /\ hCalls' = hCalls + 1
  /\ LET v == [id |-> hCalls + 1, input |-> input, inst |-> hCommand,
               component |-> None, pc |-> "loading", out |-> Failure(<<>>)]
     IN IF hCommand = 0
        THEN /\ hLast' = [v EXCEPT !.pc = "settled",
                            !.out = renderAstro(FALSE, input.path, input.name, input.serializedProps, input.slots, FALSE)]
             /\ UNCHANGED hInvs
        ELSE /\ hInvs' = hInvs \cup {v}
             /\ UNCHANGED hLast
  /\ UNCHANGED <<hContainer, hCommand, hBuilt, hRuns, hHooks>>
  /\ UNCHANGED <<domVars, waitVars, buildVars, logVars>>

\* ssrLoadModule(absolutePath) settles: the lookup and the props decoding,
\* then renderToString is called on the command's container
InvLoaded(v) ==
  /\ v \in hInvs
  /\ v.pc = "loading"
  /\ LET out == CommandBody(v.input.path, v.input.name, v.input.serializedProps, v.input.slots, FALSE)
     IN IF out.ok
        THEN /\ hInvs' = (hInvs \ {v}) \cup {[v EXCEPT !.pc = "rendering", !.component = out.component]}
             /\ UNCHANGED hLast
        ELSE /\ hInvs' = hInvs \ {v}
             /\ hLast' = [v EXCEPT !.pc = "settled", !.out = out]
  /\ UNCHANGED <<hContainer, hCommand, hBuilt, hRuns, hHooks, hCalls>>
  /\ UNCHANGED <<domVars, waitVars, buildVars, logVars>>

\* container.renderToString settles: {html} is returned, or the error thrown
InvRendered(v, rendererThrows) ==
  /\ v \in hInvs
  /\ v.pc = "rendering"
  /\ hInvs' = hInvs \ {v}
  /\ hLast' = [v EXCEPT !.pc = "settled",
                 !.out = CommandBody(v.input.path, v.input.name, v.input.serializedProps, v.input.slots, rendererThrows)]
  /\ UNCHANGED <<hContainer, hCommand, hBuilt, hRuns, hHooks, hCalls>>
  /\ UNCHANGED <<domVars, waitVars, buildVars, logVars>>

HostNext ==
  \/ ConfigureServer
  \/ \E h \in hHooks : HookCreated(h)
  \/ \E h \in hHooks : HookLoaded(h)
  \/ \E h \in hHooks : HookLoadFails(h)
  \/ \E input \in CommandInputs : Invoke(input)
  \/ \E v \in hInvs : InvLoaded(v)
  \/ \E v \in hInvs, rendererThrows \in BOOLEAN : InvRendered(v, rendererThrows)

SpecHost == Init /\ [][HostNext]_vars

-----------------------------------------------------------------------------
(* waitForHydration(container, timeout): the markers of the scope are the  *)
(* astro-island[ssr] elements under the container; hydration removes one,  *)
(* a later injection may add one; the clock advances in steps of TickMs.   *)

PollInterval == 50
DefaultTimeout == 5000
TickMs == 25

\* the timeout arguments tried
Timeouts == {0, 75, 100, DefaultTimeout}

\* a loop that tests the deadline before it counts the markers
LoopPassDeadlineFirst(markers, clock, startTime, timeout) ==
  IF clock - startTime > timeout
  THEN [pc |-> "rejected", timer |-> -1, slept |-> 0, remaining |-> markers]
  ELSE IF markers > 0
  THEN [pc |-> "sleeping", timer |-> clock + PollInterval, slept |-> 1, remaining |-> -1]
  ELSE [pc |-> "resolved", timer |-> -1, slept |-> 0, remaining |-> -1]

\* a loop whose error reports the count of one marker fewer than it found
LoopPassStaleCount(markers, clock, startTime, timeout) ==
  IF markers > 0
  THEN IF clock - startTime > timeout
       THEN [pc |-> "rejected", timer |-> -1, slept |-> 0, remaining |-> markers - 1]
       ELSE [pc |-> "sleeping", timer |-> clock + PollInterval, slept |-> 1, remaining |-> -1]
  ELSE [pc |-> "resolved", timer |-> -1, slept |-> 0, remaining |-> -1]

\* a loop that sleeps two poll intervals between its passes
LoopPassSlowPoll(markers, clock, startTime, timeout) ==
  IF markers > 0
  THEN IF clock - startTime > timeout
       THEN [pc |-> "rejected", timer |-> -1, slept |-> 0, remaining |-> markers]
       ELSE [pc |-> "sleeping", timer |-> clock + 2 * PollInterval, slept |-> 1, remaining |-> -1]
  ELSE [pc |-> "resolved", timer |-> -1, slept |-> 0, remaining |-> -1]

\* a loop that schedules its next sleep before it looks at the deadline
LoopPassRejectKeepsTimer(markers, clock, startTime, timeout) ==
  IF markers > 0
  THEN IF clock - startTime > timeout
       THEN [pc |-> "rejected", timer |-> clock + PollInterval, slept |-> 1, remaining |-> markers]
       ELSE [pc |-> "sleeping", timer |-> clock + PollInterval, slept |-> 1, remaining |-> -1]
  ELSE [pc |-> "resolved", timer |-> -1, slept |-> 0, remaining |-> -1]

\* a loop that never looks at the clock
LoopPassNoDeadline(markers, clock, startTime, timeout) ==
  IF markers > 0
  THEN [pc |-> "sleeping", timer |-> clock + PollInterval, slept |-> 1, remaining |-> -1]
  ELSE [pc |-> "resolved", timer |-> -1, slept |-> 0, remaining |-> -1]

\* one pass of the while loop, from its condition to the await: the state of
\* the wait after it, given the markers found and the clock
LoopPass(markers, clock, startTime, timeout) ==
  IF markers > 0
  THEN IF clock - startTime > timeout
       THEN [pc |-> "rejected", timer |-> -1, slept |-> 0, remaining |-> markers]
       ELSE [pc |-> "sleeping", timer |-> clock + PollInterval, slept |-> 1, remaining |-> -1]
  ELSE [pc |-> "resolved", timer |-> -1, slept |-> 0, remaining |-> -1]

\* the effect of one loop pass on the wait's state
RunLoop(startTime) ==
  LET p == LoopPass(wMarkers, wNow, startTime, wTimeout)
  IN /\ wPc' = p.pc
     /\ wTimer' = p.timer
     /\ wSleeps' = wSleeps + p.slept
     /\ wRemaining' = p.remaining
     /\ wPolls' = wPolls + 1
     /\ wZeros' = wZeros + (IF wMarkers = 0 THEN 1 ELSE 0)

\* what a test can pass as the first argument: screen.container or another
\* element, the render result itself, or a locator such as screen.getByTestId(..)
ArgKinds == {"element", "result", "locator"}

\* container.querySelectorAll is a function only when the argument is an element
HasQuerySelectorAll(arg) == arg = "element"

\* waitForHydration is called: startTime is read and the loop is entered; the
\* loop condition throws a TypeError when the argument has no querySelectorAll
WaitCall ==
  /\ wPc = "start"
  /\ wStart' = wNow
  /\ IF HasQuerySelectorAll(wArg)
     THEN /\ wInit' = wMarkers
          /\ RunLoop(wNow)
     ELSE /\ wPc' = "typeerror"
          /\ UNCHANGED <<wInit, wTimer, wSleeps, wRemaining, wPolls, wZeros>>
  /\ UNCHANGED <<wTimeout, wNow, wMarkers, wArg, wLate>>
  /\ UNCHANGED <<domVars, hostVars, buildVars, logVars>>

\* the setTimeout of the sleep fires, at its due time or later, and the loop goes round
TimerFires ==
  /\ wPc = "sleeping"
  /\ wNow >= wTimer
  /\ RunLoop(wStart)
  /\ wLate' = (wLate \/ wNow > wTimer)
  /\ UNCHANGED <<wStart, wInit, wTimeout, wNow, wMarkers, wArg>>
  /\ UNCHANGED <<domVars, hostVars, buildVars, logVars>>

\* an island hydrates: its ssr attribute is removed
Hydrate ==
  /\ wMarkers > 0
  /\ wMarkers' = wMarkers - 1
  /\ UNCHANGED <<wPc, wStart, wTimeout, wNow, wTimer, wInit, wPolls, wZeros, wSleeps, wRemaining, wArg, wLate>>
  /\ UNCHANGED <<domVars, hostVars, buildVars, logVars>>

\* another island is injected into the scope
MarkerAppears ==
  /\ wMarkers < MaxMarkers
  /\ wMarkers' = wMarkers + 1
  /\ UNCHANGED <<wPc, wStart, wTimeout, wNow, wTimer, wInit, wPolls, wZeros, wSleeps, wRemaining, wArg, wLate>>
  /\ UNCHANGED <<domVars, hostVars, buildVars, logVars>>

\* time passes
WaitTick ==
  /\ wNow < MaxClock
  /\ wNow' = wNow + TickMs
  /\ UNCHANGED <<wPc, wStart, wTimeout, wTimer, wMarkers, wInit, wPolls, wZeros, wSleeps, wRemaining, wArg, wLate>>
  /\ UNCHANGED <<domVars, hostVars, buildVars, logVars>>

WaitInit ==
  /\ wPc = "start"
  /\ wStart = 0
  /\ wTimeout \in Timeouts
  /\ wNow = 0
  /\ wTimer = -1
  /\ wMarkers \in 0..MaxMarkers
  /\ wInit = 0
  /\ wPolls = 0
  /\ wZeros = 0
  /\ wSleeps = 0
  /\ wRemaining = -1
  /\ wArg = "element"
  /\ wLate = FALSE

WaitNext ==
  \/ WaitCall
  \/ TimerFires
  \/ Hydrate
  \/ MarkerAppears
  \/ WaitTick

InitWait == DomInit /\ HostIdle /\ WaitInit /\ BuildIdle /\ LogIdle

SpecWait == InitWait /\ [][WaitNext]_vars

\* the wait in a browser whose clock advances and whose timers fire: the call
\* is made, time passes, and a due setTimeout callback runs; nothing is
\* assumed about the islands
SpecWaitLive ==
  /\ InitWait
  /\ [][WaitNext]_vars
  /\ WF_vars(WaitCall)
  /\ WF_vars(WaitTick)
  /\ WF_vars(TimerFires)

\* the wait called with any of the arguments the README shows
InitWaitAny ==
  /\ DomInit
  /\ HostIdle
  /\ wPc = "start"
  /\ wStart = 0
  /\ wTimeout \in Timeouts
  /\ wNow = 0
  /\ wTimer = -1
  /\ wMarkers \in 0..MaxMarkers
  /\ wInit = 0
  /\ wPolls = 0
  /\ wZeros = 0
  /\ wSleeps = 0
  /\ wRemaining = -1
  /\ wArg \in ArgKinds
  /\ wLate = FALSE
  /\ BuildIdle
  /\ LogIdle

SpecWaitAny == InitWaitAny /\ [][WaitNext]_vars

-----------------------------------------------------------------------------
(* A module load through the two plugins                                   *)

\* the pre plugin's transform hook runs on the module
TransformPre ==
  /\ tPc = "load"
  /\ tPre' = transformPre(tCode, tId, tSsr)
  /\ tPc' = "pre"
  /\ UNCHANGED <<tId, tCode, tSsr, tPost, tExport>>
  /\ UNCHANGED <<domVars, hostVars, waitVars, logVars>>

\* the post plugin's transform hook runs on what the earlier plugins left
TransformPost ==
  /\ tPc = "pre"
  /\ tPost' = transformPost(Applied(tPre, tCode), tId, tSsr)
  /\ tPc' = "post"
  /\ UNCHANGED <<tId, tCode, tSsr, tPre, tExport>>
  /\ UNCHANGED <<domVars, hostVars, waitVars, logVars>>

\* the importer evaluates the resulting module
Evaluate ==
  /\ tPc = "post"
  /\ tExport' = EvalModule(Applied(tPost, Applied(tPre, tCode)))
  /\ tPc' = "imported"
  /\ UNCHANGED <<tId, tCode, tSsr, tPre, tPost>>
  /\ UNCHANGED <<domVars, hostVars, waitVars, logVars>>

InitBuild ==
  /\ DomInit
  /\ HostIdle
  /\ WaitIdle
  /\ tPc = "load"
  /\ tId \in ModuleIds
  /\ tCode \in CompiledBodies
  /\ tSsr \in SsrOptions
  /\ tPre = NullResult
  /\ tPost = NullResult
  /\ tExport = NoExport
  /\ LogIdle

BuildNext ==
  \/ TransformPre
  \/ TransformPost
  \/ Evaluate

SpecBuild == InitBuild /\ [][BuildNext]_vars

\* a test calls render() with the default export it imported
RenderImported(options) ==
  /\ tPc = "imported"
  /\ RenderCall(<<tExport, NoObject, NoObject>>, options)

\* a module load followed by renders of what the load exported
ImportNext ==
  \/ TransformPre
  \/ TransformPost
  \/ Evaluate
  \/ \E options \in DefaultOptions : RenderImported(options)
  \/ HostRun(TRUE, FALSE)
  \/ \E resp \in responses : Deliver(resp)

SpecImport == InitBuild /\ [][ImportNext]_vars

-----------------------------------------------------------------------------
(* Properties of the browser side                                          *)

RenderedContainers == {r.container : r \in results}

\* the nodes injected by a render (not elements) that are inside the document
MarkupInDocument ==
  {nd \in UNION {{kids[e][i] : i \in 1..Len(kids[e])} : e \in {x \in Elements : Attached(kids, x)}} : nd.k # "el"}

AfterCleanup == lastOp.op \in {"cleanup", "beforeEach"}

\* C1, as stated: every container in the mount registry is attached under
\* the document (a container that is not attached is not in the registry),
\* whatever container and baseElement the renders were given.
C1_RegisteredIsAttached == \A c \in Members(registry) : Attached(kids, c)

\* C1, amended: as long as every render() that has returned was called
\* without container and baseElement, a container returned by render() is in
\* the registry exactly when it is attached under the document, and nothing
\* else is registered.
C1_DefaultRegistryIffAttached ==
  (\A r \in results : r.options \in DefaultOptions) =>
    /\ \A c \in Members(registry) : Attached(kids, c)
    /\ \A c \in RenderedContainers : Attached(kids, c) <=> SetHas(registry, c)
    /\ Members(registry) \subseteq RenderedContainers

\* two default mounts, one unmounted and one live
C1_Witness ==
  /\ \A r \in results : r.options \in DefaultOptions
  /\ \E c \in RenderedContainers : SetHas(registry, c) /\ Attached(kids, c)
  /\ \E c \in RenderedContainers : ~SetHas(registry, c) /\ ~Attached(kids, c)

\* C2, as stated: after unmount() the container is not attached to the
\* document, is empty and is not in the registry.
C2_UnmountDetaches ==
  lastOp.op = "unmount" =>
    /\ ~Attached(kids, lastOp.c)
    /\ kids[lastOp.c] = <<>>
    /\ ~SetHas(registry, lastOp.c)

\* C2, amended: after unmount() the container is empty and is not in the
\* registry; it is detached from the document when its parent was
\* document.body, and otherwise it keeps the parent it had.
C2_UnmountClearsAndUnregisters ==
  lastOp.op = "unmount" =>
    /\ kids[lastOp.c] = <<>>
    /\ ~SetHas(registry, lastOp.c)
    /\ IF lastOp.parent = Body
       THEN ParentNode(kids, lastOp.c) = None /\ ~Attached(kids, lastOp.c)
       ELSE ParentNode(kids, lastOp.c) = lastOp.parent

\* a default mount was unmounted while another mount stays live
C2_Witness ==
  /\ lastOp.op = "unmount"
  /\ lastOp.parent = Body
  /\ lastOp.c \in Divs
  /\ registry # <<>>

C4_NoLeakAtTestStart ==
  lastOp.op = "beforeEach" =>
    /\ registry = <<>>
    /\ \A nd \in MarkupInDocument : ~nd.stale

\* the hook ran over the mounts an earlier test left behind, one of them
\* under an element other than document.body, with a render still in flight
C4_Witness ==
  /\ lastOp.op = "beforeEach"
  /\ Cardinality(lastOp.reg) = 1
  /\ lastOp.wasBody = {}
  /\ \E r \in responses : r.call.stale /\ r.out.ok

NoTruthyFlag(component) == component.kind # "object" \/ component.flag # "true"

\* C5: render() of a component without a truthy __astroComponent rejects
\* with "Not an Astro component", sends no command and leaves the DOM and
\* the registry as they were.
C5_InvalidComponentRejected ==
  [][\A input \in RenderInputs, options \in RenderOptions :
       (NoTruthyFlag(input[1]) /\ RenderCall(input, options)) =>
         /\ lastOp'.op = "rejected"
         /\ Contains(lastOp'.msg, "Not an Astro component")
         /\ UNCHANGED <<kids, created, registry, results, requests, responses>>]_vars

\* a rejected render() while a mount is live
C5_Witness ==
  /\ lastOp.op = "rejected"
  /\ Contains(lastOp.msg, "Not an Astro component")
  /\ registry # <<>>

HostErrors == {NotInitializedMsg, LoadErrorMsg(MissingPath), NotFoundMsg(EmptyPath, Modules[EmptyPath]), RenderErrorMsg}

\* C6: a failed command carries no HTML; the render() that awaits it rejects
\* with the command's error, and neither the call, nor the host's run, nor
\* the rejection changes the DOM, the registry or the results.
C6_HostFailureRejects ==
  [][/\ \A resp \in responses' : ~resp.out.ok => resp.out.html = <<>> /\ resp.out.error \in HostErrors
     /\ \A resp \in responses :
          (~resp.out.ok /\ Deliver(resp)) =>
            /\ lastOp'.op = "rejected"
            /\ lastOp'.msg = resp.out.error
            /\ UNCHANGED <<kids, created, registry, results>>
     /\ (calls' # calls \/ Len(requests') # Len(requests)) => UNCHANGED <<kids, created, registry, results>>]_vars

\* a render() rejected with the renderer's error while a mount is live
C6_Witness ==
  /\ lastOp.op = "rejected"
  /\ lastOp.msg = RenderErrorMsg
  /\ registry # <<>>

-----------------------------------------------------------------------------
(* Properties of the host side                                             *)

Invocations == hInvs \cup {v \in {hLast} : v.id # 0}

\* C7, as stated: a command invoked while a configureServer run is still
\* constructing the host neither fails with "not initialized" nor starts
\* another construction: it waits.
C7_EarlyCallWaits ==
  [][\A input \in CommandInputs :
       (hHooks # {} /\ Invoke(input)) =>
         /\ ~(hLast'.id = hCalls' /\ hLast'.out.error = NotInitializedMsg)
         /\ hRuns' = hRuns]_vars

\* C8, as stated: the renderer host is constructed at most once, and every
\* invocation renders with that one instance.
C8_ConstructedOnce ==
  /\ hRuns <= 1
  /\ Len(hBuilt) <= 1
  /\ \A v \in Invocations : v.inst \in {0, 1}

\* the export named exportName when the module has it, else the default export
NamedThenDefault(module, exportName) ==
  IF Export(module, exportName) # None THEN Export(module, exportName) ELSE Export(module, "default")

\* C9, as stated: the command renders the export named exportName when the
\* module has it, and the default export only when it has not.
C9_NamedExportPreferred ==
  \A v \in Invocations :
    v.component # None =>
      v.component = NamedThenDefault(Modules[Resolve(ProjectRoot, v.input.path)], v.input.name)

-----------------------------------------------------------------------------
(* Properties of the hydration wait                                        *)

\* C10: the wait resolves at the first loop pass that finds no marker, and a
\* wait called on a scope without markers resolves in that first pass,
\* with no setTimeout, whatever the timeout.
C10_ResolvesAtFirstZero ==
  /\ wZeros > 0 => wPc = "resolved" /\ wZeros = 1
  /\ wPc = "resolved" => wZeros = 1 /\ wTimer = -1
  /\ (wPc # "start" /\ wInit = 0) => wPc = "resolved" /\ wPolls = 1 /\ wSleeps = 0

\* a wait that slept, then found the scope hydrated
C10_Witness ==
  /\ wPc = "resolved"
  /\ wInit = 2
  /\ wSleeps >= 2
  /\ wNow - wStart > wTimeout

\* a wait with timeout 0 called on a scope without markers
C10_WitnessNoMarkers ==
  /\ wPc = "resolved"
  /\ wInit = 0
  /\ wTimeout = 0

Settled == wPc \in {"resolved", "rejected"}

\* C11: the wait rejects only at a pass after the deadline that finds a
\* marker, it reports the number of markers found at that pass (at least 1),
\* and a pass that finds none resolves, also after the deadline.
C11_TimeoutReportsRemaining ==
  /\ [](wPc = "rejected" => wRemaining >= 1 /\ wZeros = 0 /\ wNow - wStart > wTimeout)
  /\ [][/\ ((wPc # "rejected" /\ wPc' = "rejected") => (wRemaining' = wMarkers /\ wMarkers >= 1))
        /\ ((wPolls' # wPolls /\ wMarkers = 0) => wPc' = "resolved")
        /\ ((wPolls' # wPolls /\ wMarkers > 0 /\ wNow - wStart' > wTimeout) => wPc' = "rejected")]_vars

\* a timeout that reports one marker of the two the scope had at the call
C11_Witness ==
  /\ wPc = "rejected"
  /\ wInit = 2
  /\ wRemaining = 1
  /\ wTimeout = 100

\* C12: when every setTimeout of the wait fires at its due time, the wait
\* rejects no earlier than timeout and no later than timeout + 50 ms after
\* the call; for timeout 100 between 100 and 150 ms.
C12_RejectsWithinOnePollOfDeadline ==
  [][(wPc # "rejected" /\ wPc' = "rejected" /\ ~wLate') =>
       /\ wNow - wStart >= wTimeout
       /\ wNow - wStart <= wTimeout + PollInterval
       /\ (wTimeout = 100 => wNow - wStart \in 100..150)]_vars

\* a wait with timeout 100 whose timers fired on time, at its rejection
C12_Witness ==
  /\ wPc = "rejected"
  /\ ~wLate
  /\ wTimeout = 100
  /\ wSleeps = 3
  /\ wNow - wStart = 150

\* C13: a settled wait polls no more and has no timer; a timer is pending
\* exactly while the wait sleeps, and never more than one.
C13_SettledIsQuiet ==
  /\ [](/\ (Settled => wTimer = -1)
        /\ ((wTimer # -1) <=> (wPc = "sleeping"))
        /\ (wPolls >= 1 => (wSleeps - (wPolls - 1) = IF wPc = "sleeping" THEN 1 ELSE 0)))
  /\ [][Settled => (wPc' = wPc /\ wPolls' = wPolls /\ wSleeps' = wSleeps /\ wTimer' = -1)]_vars

\* a wait that timed out after sleeping, some time after it settled
C13_Witness ==
  /\ wPc = "rejected"
  /\ wSleeps >= 2
  /\ wNow - wStart > wTimeout + PollInterval
  /\ wMarkers > 0

\* C14, as stated: the wait counts the markers of its scope whether it is
\* given an element, a render result or a locator: it never fails on the
\* kind of its argument.
C14_AcceptsResultAndLocator ==
  wArg \in {"result", "locator"} => wPc # "typeerror"

\* the positions of the script elements with a src, in the whole DOM
ExternalScripts ==
  {p \in Elements \X (1..(3 * MaxRenders)) :
     p[2] <= Len(kids[p[1]]) /\ kids[p[1]][p[2]].k = "script" /\ kids[p[1]][p[2]].src # <<>>}

\* C15, as stated: two script elements created by two injections of HTML
\* that loads the same script URL never have the same src.
C15_ScriptUrlsDistinct ==
  \A p, q \in ExternalScripts : p # q => kids[p[1]][p[2]].src # kids[q[1]][q[2]].src

RECURSIVE InsideWithin(_, _, _, _)
InsideWithin(k, e, c, n) ==
  IF e = c THEN TRUE
  ELSE IF n = 0 THEN FALSE
  ELSE LET p == ParentNode(k, e) IN p # None /\ InsideWithin(k, p, c, n - 1)

\* c.contains(e)
Inside(k, e, c) == InsideWithin(k, e, c, Cardinality(Elements))

\* what unmount() does to the container of res itself
UnmountOwnEffect(res) ==
  LET c == res.container
      p == ParentNode(kids, c)
  IN /\ kids'[c] = <<>>
     /\ Members(registry') = Members(registry) \ {c}
     /\ (p = Body => (ParentNode(kids', c) = None /\ kids'[Body] = RemoveChild(kids, Body, c)[Body]))
     /\ (p \notin {Body, None} => (ParentNode(kids', c) = p /\ kids'[p] = kids[p]))
     /\ (p = None => ParentNode(kids', c) = None)

\* the container e keeps its parent, its attachment, its contents and its registry entry
KeepsAll(e) ==
  /\ ParentNode(kids', e) = ParentNode(kids, e)
  /\ Attached(kids', e) = Attached(kids, e)
  /\ kids'[e] = kids[e]
  /\ SetHas(registry', e) = SetHas(registry, e)

\* C16, as stated: unmount() clears and unregisters its container, detaches
\* it only from document.body, and leaves the container, the contents and
\* the registry entry of every other mount as they were.
C16_UnmountLeavesOtherMounts ==
  [][\A res \in results : Unmount(res) =>
       /\ UnmountOwnEffect(res)
       /\ \A r \in results : r.container # res.container => KeepsAll(r.container)]_vars

\* C16, amended: the same for the container itself; every other container
\* that is not inside the unmounted one keeps its parent, attachment,
\* contents and registry entry, and one inside it keeps its contents and its
\* registry entry but leaves the document with the cleared contents.
C16_UnmountLeavesMountsOutside ==
  [][\A res \in results : Unmount(res) =>
       /\ UnmountOwnEffect(res)
       /\ \A e \in Elements \ {res.container, Body} :
            /\ ~Inside(kids, e, res.container) => KeepsAll(e)
            /\ Inside(kids, e, res.container) =>
                 /\ kids'[e] = kids[e]
                 /\ SetHas(registry', e) = SetHas(registry, e)
                 /\ ~Attached(kids', e)
                 /\ ~Inside(kids', e, res.container)]_vars

\* an unmount of a container under an element other than document.body,
\* with another mount live
C16_Witness ==
  /\ lastOp.op = "unmount"
  /\ lastOp.parent = Host
  /\ ParentNode(kids, lastOp.c) = Host
  /\ registry # <<>>

\* the number of <script> elements of the HTML, at any depth
HtmlScriptCount(html) ==
  Cardinality({i \in 1..Len(html) : html[i].tag = "script"})
  + Cardinality(UNION {{<<i, j>> : j \in 1..Len(html[i].inner)} : i \in {x \in 1..Len(html) : html[x].tag = "el"}})

C18_BaseElementDefaultsToContainer ==
  \A r \in results : r.options.baseElement = None => r.baseElement = r.container

BrowserAstroLoad == EndsWithAstro(tId) /\ ~SsrTruthy(tSsr)

\* C20: for a browser load of an id ending in .astro the post transform
\* returns a module that holds nothing of the compiled code, is the same for
\* every compiled body, and whose default export evaluates to
\* {__astroComponent: true, __path: id, __name: "default"}: the emitted path
\* literal evaluates to the id.
C20_BrowserAstroBecomesMetadata ==
  /\ (tPc \in {"post", "imported"} /\ BrowserAstroLoad) =>
       /\ tPost.kind = "code"
       /\ \A i \in 1..Len(tCode) : \A j \in 1..Len(tPost.text) : tPost.text[j] # tCode[i]
       /\ \A code \in CompiledBodies : transformPost(code, tId, tSsr) = tPost
       /\ EvalStringLiteral(PathLiteral(tPost.text)) = [ok |-> TRUE, v |-> tId]
       /\ EvalModule(tPost.text) = Ref("true", tId, "default")
  /\ (tPc = "imported" /\ BrowserAstroLoad) =>
       (tExport = Ref("true", tId, "default") /\ FlagTruthy(tExport))

\* a Windows path with backslashes, imported in the browser
C20_Witness ==
  /\ tPc = "imported"
  /\ tSsr = "undefined"
  /\ \E i \in 1..Len(tId) : tId[i] = Backslash
  /\ tExport = Ref("true", tId, "default")

HostAstroLoad == EndsWithAstro(tId) /\ SsrTruthy(tSsr)

\* C21: for a host load (ssr true) of an id ending in .astro the pre
\* transform returns the marker line followed by the code it was given,
\* the post transform returns null, and the module that is evaluated is not
\* a component reference.
C21_HostAstroKeepsCode ==
  HostAstroLoad =>
    /\ tPc \in {"pre", "post", "imported"} =>
         (tPre = CodeResult(<<"// astro-head-inject", Newline>> \o tCode))
    /\ tPc \in {"post", "imported"} =>
         /\ tPost = NullResult
         /\ Applied(tPost, Applied(tPre, tCode)) = <<"// astro-head-inject", Newline>> \o tCode
    /\ tPc = "imported" => (tExport = OtherExport /\ ~FlagTruthy(tExport))

\* a host load of an .astro module, evaluated
C21_Witness ==
  /\ tPc = "imported"
  /\ HostAstroLoad
  /\ tId = CardPath
  /\ Len(tPre.text) = Len(tCode) + 2

\* the last piece of the id is not the .astro extension
OtherFile == tId = <<>> \/ tId[Len(tId)] # ".astro"

\* C22: for an id that does not end in .astro both hooks return null,
\* whatever the ssr option, and the module keeps the code it had.
C22_OtherFilesUntouched ==
  (OtherFile /\ tPc # "idle") =>
    /\ tPc \in {"pre", "post", "imported"} => tPre = NullResult
    /\ tPc \in {"post", "imported"} =>
         (tPost = NullResult /\ Applied(tPost, Applied(tPre, tCode)) = tCode)
    /\ tPc = "imported" => tExport = OtherExport

\* a module whose id has .astro before a query suffix, loaded for the
\* browser and left as it was
C22_Witness ==
  /\ tPc = "imported"
  /\ OtherFile
  /\ \E i \in 1..Len(tId) : tId[i] = ".astro"
  /\ tSsr = "false"
  /\ tExport = OtherExport

\* whether a function value occurs anywhere in the entries
RECURSIVE ContainsFunction(_)
ContainsFunction(entries) ==
  \E i \in 1..Len(entries) :
    entries[i][2].t = "function" \/ ContainsFunction(entries[i][2].items)

\* C23: render() with props that hold a function anywhere rejects with the
\* encoder's error, sends no command and creates and registers nothing.
C23_FunctionPropsRejected ==
  [][\A input \in CodecInputs, options \in DefaultOptions :
       (input[2].defined /\ ContainsFunction(input[2].entries) /\ RenderCall(input, options)) =>
         /\ lastOp'.op = "rejected"
         /\ lastOp'.msg = StringifyErrorMsg
         /\ UNCHANGED <<kids, created, registry, results, requests, responses>>]_vars

\* a render() rejected by the encoder while an earlier mount is live
C23_Witness ==
  /\ lastOp.op = "rejected"
  /\ lastOp.msg = StringifyErrorMsg
  /\ registry # <<>>
  /\ requests = <<>>

\* C24: what is sent for the props parses back to the props render() was
\* given, the renderer receives exactly those props, and it receives the
\* slots as the caller gave them.
C24_PropsRoundTrip ==
  /\ \A i \in 1..Len(requests) :
       /\ requests[i].props.defined =>
            /\ WellFormed(requests[i].serializedProps)
            /\ parse(requests[i].serializedProps) = requests[i].props.entries
       /\ ~requests[i].props.defined => requests[i].serializedProps = Undefined
  /\ \A resp \in responses : resp.out.ok =>
       /\ resp.out.props = resp.call.props
       /\ resp.out.slots = resp.call.slots

\* the renderer received a Map and a Set nested in the props, and a slot
C24_Witness ==
  \E resp \in responses :
    /\ resp.out.ok
    /\ resp.out.props = CollectionProps
    /\ resp.out.slots = FooterSlots

\* a command that reached a loaded module with neither export
NeitherExport(v) ==
  LET abs == Resolve(ProjectRoot, v.input.path)
  IN /\ v.inst # 0
     /\ abs \in DOMAIN Modules
     /\ \A i \in 1..Len(Modules[abs]) :
          Modules[abs][i][1] \in {v.input.name, "default"} => Modules[abs][i][2] = None

\* C25: a command whose loaded module has neither the named export nor a
\* default export settles with the error "Component not found for <resolved
\* absolute path>. Available exports: <the module's export names>", and is
\* never in the renderer
C25_NotFoundNamesPathAndExports ==
  \A v \in Invocations : NeitherExport(v) =>
    /\ v.pc # "rendering"
    /\ v.pc = "settled" =>
         LET abs == Resolve(ProjectRoot, v.input.path)
         IN /\ ~v.out.ok
            /\ v.out.component = None
            /\ v.out.html = <<>>
            /\ v.out.error = <<"Component not found for ", "/">> \o Tail(abs)
                               \o <<". Available exports: ">>
                               \o [i \in 1..Len(Modules[abs]) |-> Modules[abs][i][1]]

C25_Witness ==
  /\ hLast.pc = "settled"
  /\ NeitherExport(hLast)
  /\ hLast.input.name = "Named"
  /\ hLast.out.error = <<"Component not found for ", "/", "src/Empty", ".astro", ". Available exports: ", "frontmatter">>

\* C26: cleanup() is idempotent: called with an empty registry it changes
\* neither the DOM nor the registry, and a second call right after a first
\* one leaves the state the first one left
C26_CleanupIdempotent ==
  [][Cleanup =>
       /\ (registry = <<>> => (kids' = kids /\ registry' = registry))
       /\ (lastOp.op = "cleanup" => (kids' = kids /\ registry' = registry))
       /\ cleanup(kids', registry') = [kids |-> kids', registry |-> registry']]_vars

C26_Witness ==
  /\ lastOp.op = "cleanup"
  /\ lastOp.reg = {}
  /\ results # {}
  /\ \E r \in results : Attached(kids, r.container)

\* the position among the scripts of the HTML of the script that is item i
\* (j = 0) or the j-th script inside item i
ScriptRank(html, i, j) ==
  Cardinality({x \in 1..(i - 1) : html[x].tag = "script"})
  + Cardinality(UNION {{<<x, y>> : y \in 1..Len(html[x].inner)} : x \in {z \in 1..(i - 1) : html[z].tag = "el"}})
  + (IF j = 0 THEN 1 ELSE j)

FreshCopyOf(node, sc, t) ==
  /\ node.k = "script"
  /\ node.type = sc.type
  /\ node.text = sc.text
  /\ node.src = IF sc.src = <<>> THEN <<>>
                ELSE sc.src \o <<(IF "?" \in {sc.src[x] : x \in 1..Len(sc.src)} THEN "&" ELSE "?"), "_t=", ToString(t)>>

\* C27: what an injection adds to the container is first the non-script
\* content of the HTML and then one fresh script element per script of the
\* HTML, in the HTML's order, each with the original type and inline text and
\* the original src followed by the cache-defeating parameter
C27_ContentThenScriptsInOrder ==
  [][\A resp \in responses : (Deliver(resp) /\ resp.out.ok) =>
       LET c == lastOp'.c
           html == resp.out.html
           old == Len(kids[c])
           content == {i \in 1..Len(html) : html[i].tag = "el"}
           n == Cardinality(content)
           added == [i \in 1..(Len(kids'[c]) - old) |-> kids'[c][old + i]]
       IN /\ SubSeq(kids'[c], 1, old) = kids[c]
          /\ Len(added) = n + HtmlScriptCount(html)
          /\ \A i \in content :
               LET pos == Cardinality({x \in content : x <= i})
               IN added[pos].k = "html" /\ added[pos].id = html[i].id
          /\ \A i \in 1..Len(html) :
               /\ (html[i].tag = "script" => FreshCopyOf(added[n + ScriptRank(html, i, 0)], html[i], now))
               /\ (html[i].tag = "el" =>
                     \A j \in 1..Len(html[i].inner) :
                        FreshCopyOf(added[n + ScriptRank(html, i, j)], html[i].inner[j], now))
          /\ \A a, b \in 1..Len(added) : (added[a].k = "script" /\ added[b].k = "html") => b < a]_vars

C27_Witness ==
  /\ lastOp.op = "rendered"
  /\ now = 1
  /\ LET ks == kids[lastOp.c]
         m == Len(ks)
     IN /\ m >= 8
        /\ [i \in 1..4 |-> <<ks[m - 4 + i].k, ks[m - 4 + i].id, ks[m - 4 + i].type, ks[m - 4 + i].text, ks[m - 4 + i].src>>]
             = << <<"html", "island", "", "", <<>> >>,
                  <<"script", "", "module", "", <<"/a.js", "?", "_t=", "1">> >>,
                  <<"script", "", "", "", <<"/b.js", "?", "v=1", "&", "_t=", "1">> >>,
                  <<"script", "", "", "init()", <<>> >> >>

\* the position of x in seq
IndexIn(seq, x) == CHOOSE i \in 1..Len(seq) : seq[i] = x

Outstanding(id) ==
  Cardinality({i \in 1..Len(requests) : requests[i].id = id})
  + Cardinality({resp \in responses : resp.call.id = id})
  + Cardinality({r \in results : r.id = id})

\* C28: a render() validates, encodes the props and issues one command in
\* its first step, touching neither the DOM nor the registry; the host takes
\* the commands in call order; the injection and the registration follow in
\* the step that consumes the response, and put the new container after the
\* containers of all earlier calls; no call has more than one command,
\* response or result
C28_RenderStepsInOrder ==
  /\ [](\A id \in 1..MaxRenders : Outstanding(id) <= 1 /\ (id > calls => Outstanding(id) = 0))
  /\ [](\A i, j \in 1..Len(requests) : i < j => requests[i].id < requests[j].id)
  /\ [][/\ (\A input \in RenderInputs, options \in RenderOptions : RenderCall(input, options) =>
              /\ UNCHANGED <<kids, created, registry, results, responses>>
              /\ IF input[1].kind = "object" /\ input[1].flag = "true" /\ ~(input[2].defined /\ ContainsFunction(input[2].entries))
                 THEN /\ Len(requests') = Len(requests) + 1
                      /\ SubSeq(requests', 1, Len(requests)) = requests
                      /\ requests'[Len(requests')].id = calls'
                      /\ requests'[Len(requests')].serializedProps =
                           (IF input[2].defined THEN stringify(input[2].entries) ELSE Undefined)
                      /\ lastOp'.op = "called"
                 ELSE requests' = requests /\ lastOp'.op = "rejected")
         /\ (\A initialized \in BOOLEAN, rendererThrows \in BOOLEAN : HostRun(initialized, rendererThrows) =>
              /\ UNCHANGED <<kids, created, registry, results>>
              /\ \E resp \in responses' \ responses :
                   /\ responses' = responses \cup {resp}
                   /\ resp.call = requests[1]
                   /\ \A i \in 1..Len(requests') : requests'[i].id > resp.call.id)
         /\ (\A resp \in responses : (Deliver(resp) /\ resp.out.ok) =>
              /\ \E r \in results' \ results :
                   /\ results' = results \cup {r}
                   /\ r.id = resp.call.id
                   /\ r.container \in Members(registry')
                   /\ (resp.call.options.container = None =>
                         LET base == r.baseElement
                         IN /\ kids'[base] = Append(kids[base], ElNode(r.container))
                            /\ \A e \in results :
                                 (e.id < r.id /\ ParentNode(kids, e.container) = base) =>
                                    IndexIn(kids'[base], ElNode(e.container)) < IndexIn(kids'[base], ElNode(r.container)))
              /\ UNCHANGED requests)
        ]_vars

C28_Witness ==
  /\ calls = MaxRenders
  /\ requests = <<>> /\ responses = {}
  /\ \E r1, r2 \in results :
       /\ r1.id = 1 /\ r2.id = 2
       /\ r1.options \in DefaultOptions /\ r2.options \in DefaultOptions
       /\ ParentNode(kids, r1.container) = Body /\ ParentNode(kids, r2.container) = Body
       /\ IndexIn(kids[Body], ElNode(r1.container)) < IndexIn(kids[Body], ElNode(r2.container))
       /\ registry = <<r1.container, r2.container>>

HoldsMarkup(k, e) == \E i \in 1..Len(k[e]) : k[e][i].k # "el"

Removed(res) == ~SetHas(registry, res.container) /\ kids[res.container] = <<>>

\* C30: unmount() and cleanup() can be called in every state; after any
\* unmount(), the first or a later one, the container is empty, not in the
\* registry and not a child of document.body; an unmount() of a mount that
\* was already removed by unmount() or cleanup() changes neither the DOM nor
\* the registry, and a cleanup() leaves the container of a removed mount
\* empty, unregistered and outside document.body
C30_UnmountRepeatable ==
  /\ [](ENABLED Cleanup /\ \A res \in results : ENABLED Unmount(res))
  /\ [][/\ (\A res \in results : Unmount(res) =>
              /\ kids'[res.container] = <<>>
              /\ ~SetHas(registry', res.container)
              /\ ParentNode(kids', res.container) # Body
              /\ (Removed(res) => UNCHANGED <<kids, registry>>))
         /\ (Cleanup => \A res \in results :
              Removed(res) => (/\ kids'[res.container] = <<>>
                               /\ ParentNode(kids', res.container) \in {None, ParentNode(kids, res.container)} \ {Body}
                               /\ ~SetHas(registry', res.container)))
        ]_vars

\* unmount() was called on a created container that an earlier unmount() or
\* cleanup() had already detached, while another mount is live
C30_Witness ==
  /\ lastOp.op = "unmount"
  /\ lastOp.c \in Divs
  /\ lastOp.parent = None
  /\ registry # <<>>
  /\ \E r \in results : r.container # lastOp.c /\ Attached(kids, r.container)

\* the results of render() that share the container of res
SameContainer(res) == {r \in results : r.container = res.container}

WithinClock == wStart + wTimeout + PollInterval <= MaxClock

\* C32: whatever the islands do, a wait makes at most timeout / 50 + 2 passes
\* of its loop, and when the clock advances and the timers fire a wait that
\* is sleeping settles (for every wait whose deadline lies within the
\* modelled time)
C32_WaitSettles ==
  /\ [](wPolls <= (wTimeout \div PollInterval) + 2)
  /\ ((wPc = "sleeping" /\ WithinClock) ~> Settled)

\* a wait that settled at its fourth pass after an island appeared in its scope
C32_Witness ==
  /\ Settled
  /\ WithinClock
  /\ wPolls >= 4
  /\ wInit = 1
  /\ wRemaining = 2

\* the module was loaded for the browser under an absolute id with the
\* .astro extension
BrowserAstroImport ==
  /\ tId # <<>> /\ tId[Len(tId)] = ".astro" /\ tId[1] = "/"
  /\ tSsr # "true"

\* C33: the default export of a .astro module loaded for the browser passes
\* render()'s validation, the command render() sends carries the module's id
\* as the path and "default" as the name, and the host loads the module of
\* that very id
C33_EmittedRefRendersSameFile ==
  /\ []((tPc = "imported" /\ BrowserAstroImport) =>
          /\ tExport.kind = "object" /\ tExport.flag = "true"
          /\ \A i \in 1..Len(requests) : requests[i].path = tId /\ requests[i].name = "default"
          /\ \A resp \in responses :
               /\ resp.call.path = tId /\ resp.call.name = "default"
               /\ IF tId \in DOMAIN Modules
                  THEN resp.out.ok /\ resp.out.component = Modules[tId][1][2]
                  ELSE ~resp.out.ok /\ resp.out.error = <<"Failed to load url ">> \o tId)
  /\ [][\A options \in DefaultOptions : (RenderImported(options) /\ BrowserAstroImport) =>
          /\ lastOp'.op = "called"
          /\ requests' = Append(requests, requests'[Len(requests')])
          /\ requests'[Len(requests')].path = tId
          /\ requests'[Len(requests')].name = "default"]_vars

\* the card component was imported in the browser, rendered through the
\* command and its markup injected
C33_Witness ==
  /\ tPc = "imported"
  /\ BrowserAstroImport
  /\ tId = CardPath
  /\ lastOp.op = "rendered"
  /\ \E r \in results : kids[r.container] # <<>>

IsPrefix(a, b) == Len(a) <= Len(b) /\ SubSeq(b, 1, Len(a)) = a

\* the instance has every server renderer and then every client renderer
FullyConfigured(inst) ==
  /\ inst \in 1..Len(hBuilt)
  /\ hBuilt[inst].server = <<"@astrojs/react/server.js", "@astrojs/vue/server.js">>
  /\ hBuilt[inst].client = <<"@astrojs/react">>

\* C34: a renderer host gets its server renderers one by one in list order
\* and its client renderers only when all server renderers are in; the
\* command that is handed out belongs to a host that has them all, every
\* invocation that reaches the loader or the renderer runs on such a host,
\* and an invocation made before there is a command fails without rendering
C34_RenderersBeforeCommands ==
  /\ [](\A i \in 1..Len(hBuilt) :
          /\ IsPrefix(hBuilt[i].server, ServerRenderers)
          /\ IsPrefix(hBuilt[i].client, ClientRenderers)
          /\ (hBuilt[i].client # <<>> => FullyConfigured(i)))
  /\ [](hCommand # 0 => FullyConfigured(hCommand))
  /\ [](\A v \in Invocations :
          IF v.inst = 0
          THEN v.pc = "settled" /\ ~v.out.ok /\ v.out.component = None /\ v.out.html = <<>>
          ELSE FullyConfigured(v.inst))
  /\ [][\A i \in 1..Len(hBuilt) :
          /\ Len(hBuilt'[i].server) \in {Len(hBuilt[i].server), Len(hBuilt[i].server) + 1}
          /\ IsPrefix(hBuilt[i].server, hBuilt'[i].server)
          /\ IsPrefix(hBuilt[i].client, hBuilt'[i].client)]_vars

\* a command rendered on the first host while a second configureServer run
\* has loaded one of its two server renderers
C34_Witness ==
  /\ hLast.pc = "settled"
  /\ hLast.out.ok
  /\ hLast.inst = 1
  /\ \E h \in hHooks : h.pc = "loading" /\ Len(hBuilt[h.inst].server) = 1 /\ hBuilt[h.inst].client = <<>>

\* the element debug() should print: the one given, the one behind the
\* locator given, or the container
DebugSubject(res) ==
  IF dOut.el.kind = "undefined" THEN res.container ELSE dOut.el.id

\* C35, as stated: debug() prints the given element, the element behind the
\* given locator or else the container, cut to at most maxLength characters
\* for every maxLength passed and to at most 7000 when none is passed
C35_DebugTruncates ==
  dOut.called =>
    /\ \E res \in results : dOut.element = DebugSubject(res)
    /\ dOut.printed <= dOut.len
    /\ (dOut.maxLength.kind = "number" => dOut.printed <= dOut.maxLength.v)
    /\ (dOut.maxLength.kind = "undefined" => dOut.printed <= 7000)

====
